---- MODULE Spec2Model ----
(***************************************************************************)
(* A model of src/worker.py: the CFWorkerCLI session object, its two       *)
(* JSON-backed collections (accounts, github_urls), the deployment client  *)
(* deploy_worker and the bulk deployment loop.                             *)
(*                                                                         *)
(* Python strings on which the code works character by character (strip,   *)
(* lower, split, int) are sequences of one-character strings.  Strings     *)
(* that are only concatenated and compared (response bodies, error         *)
(* messages) are TLA+ strings.                                             *)
(***************************************************************************)
EXTENDS Integers, Sequences, FiniteSets, TLC

VARIABLES
    accounts,       \* self.accounts
    github_urls,    \* self.github_urls
    accountsFile,   \* the content of ACCOUNTS_FILE on disk
    urlsFile,       \* the content of GITHUB_URLS_FILE on disk
    writeFailures,  \* number of failed file writes so far (bounded)
    pc,             \* where the control thread is
    console,        \* the outcome the last handler reported to the operator
    bulk,           \* the locals of a running bulk_deploy
    calls,          \* the requests the running handler posted to API_URL, in order
    inflight,       \* the request whose response is awaited, or <<>>
    outcome         \* what the handler's last deploy_worker call did at its boundary

vars == <<accounts, github_urls, accountsFile, urlsFile, writeFailures, pc,
          console, bulk, calls, inflight, outcome>>

(***************************************************************************)
(* Bounds of the model.                                                    *)
(***************************************************************************)
MaxUrls == 3
MaxWriteFailures == 1

(***************************************************************************)
(* Python str methods.                                                     *)
(***************************************************************************)
UpperAlpha == <<"A","B","C","D","E","F","G","H","I","J","K","L","M",
                "N","O","P","Q","R","S","T","U","V","W","X","Y","Z">>
LowerAlpha == <<"a","b","c","d","e","f","g","h","i","j","k","l","m",
                "n","o","p","q","r","s","t","u","v","w","x","y","z">>
Whitespace == {" ", "\t", "\n"}
Digits == <<"0","1","2","3","4","5","6","7","8","9">>

LowerChar(c) ==
    IF \E i \in 1..Len(UpperAlpha) : UpperAlpha[i] = c
    THEN LowerAlpha[CHOOSE i \in 1..Len(UpperAlpha) : UpperAlpha[i] = c]
    ELSE c

\* str.lower()
Lower(s) == [i \in 1..Len(s) |-> LowerChar(s[i])]

RECURSIVE LStrip(_)
LStrip(s) ==
    IF s # <<>> /\ Head(s) \in Whitespace THEN LStrip(Tail(s)) ELSE s

RECURSIVE RStrip(_)
RStrip(s) ==
    IF s # <<>> /\ s[Len(s)] \in Whitespace
    THEN RStrip(SubSeq(s, 1, Len(s) - 1))
    ELSE s

\* str.strip()
Strip(s) == RStrip(LStrip(s))

IsDigit(c) == \E i \in 1..Len(Digits) : Digits[i] = c
DigitVal(c) == (CHOOSE i \in 1..Len(Digits) : Digits[i] = c) - 1

RECURSIVE DecimalValue(_)
DecimalValue(s) ==
    IF s = <<>> THEN 0
    ELSE 10 * DecimalValue(SubSeq(s, 1, Len(s) - 1)) + DigitVal(s[Len(s)])

\* int(s): surrounding whitespace and one sign are accepted; anything else
\* than decimal digits raises ValueError (ok = FALSE).
ParseInt(s) ==
    LET t == Strip(s)
        signed == t # <<>> /\ Head(t) \in {"+", "-"}
        d == IF signed THEN Tail(t) ELSE t
        ok == d # <<>> /\ \A i \in 1..Len(d) : IsDigit(d[i])
    IN  [ok |-> ok,
         val |-> IF ~ok THEN 0
                 ELSE IF signed /\ Head(t) = "-" THEN 0 - DecimalValue(d)
                 ELSE DecimalValue(d)]

(***************************************************************************)
(* Configuration (module level of worker.py).                              *)
(***************************************************************************)
DEFAULT_GITHUB_URL ==
    <<"h","t","t","p","s",":","/","/","r","a","w",".","g","i","t","h","u","b",
      "u","s","e","r","c","o","n","t","e","n","t",".","c","o","m","/",
      "v","a","p","a","x","e","m","u","/","c","l","i","/",
      "r","e","f","s","/","h","e","a","d","s","/","m","a","i","n","/",
      "w","o","r","k","e","r",".","j","s">>

DefaultWorkerName ==
    <<"D","e","f","a","u","l","t"," ","W","o","r","k","e","r">>

(***************************************************************************)
(* The backing files.  A file is missing, holds text that is not JSON      *)
(* (malformed), or holds the list that was last dumped into it.            *)
(***************************************************************************)
MissingFile == [state |-> "missing", data |-> <<>>]
MalformedFile == [state |-> "malformed", data |-> <<>>]
FileOf(list) == [state |-> "ok", data |-> list]

\* What one attempt to write a file does: "ok"; "open_failed", open() raises
\* and the file is untouched; "dump_failed", the file was truncated by
\* open(.., "w") and the dump did not complete.
WriteOutcomes == {"ok", "open_failed", "dump_failed"}

WriteFile(file, content, w) ==
    CASE w = "ok" -> FileOf(content)
      [] w = "open_failed" -> file
      [] w = "dump_failed" -> MalformedFile

Failures(ws) == Cardinality({i \in DOMAIN ws : ws[i] # "ok"})

\* save_github_urls / save_accounts: the write is tried, an exception is
\* printed and swallowed.
save_github_urls(file, urls, w) == WriteFile(file, urls, w)

save_accounts(file, accts, w) == WriteFile(file, accts, w)

\* load_accounts: the file's list when it exists and parses, [] otherwise.
load_accounts(file) ==
    IF file.state = "ok" THEN file.data ELSE <<>>

default_urls ==
    << [name |-> DefaultWorkerName, url |-> DEFAULT_GITHUB_URL,
        is_default |-> TRUE] >>

\* A load that falls back to the default list on every failure.
load_github_urls_seedOnError(file, w) ==
    IF file.state = "ok"
    THEN [urls |-> file.data, file |-> file]
    ELSE [urls |-> default_urls, file |-> save_github_urls(file, default_urls, w)]

\* load_github_urls: the file's list when it exists and parses; when it does
\* not exist the default list is saved and returned; when reading or parsing
\* raises, [].
load_github_urls(file, w) ==
    CASE file.state = "ok" -> [urls |-> file.data, file |-> file]
      [] file.state = "missing" ->
            [urls |-> default_urls,
             file |-> save_github_urls(file, default_urls, w)]
      [] file.state = "malformed" -> [urls |-> <<>>, file |-> file]

(***************************************************************************)
(* Script sources.                                                         *)
(***************************************************************************)
\* get_default_github_url
get_default_github_url(urls) ==
    IF \E i \in 1..Len(urls) : urls[i].is_default
    THEN urls[CHOOSE i \in 1..Len(urls) :
                 /\ urls[i].is_default
                 /\ \A j \in 1..(i - 1) : ~urls[j].is_default].url
    ELSE IF urls # <<>> THEN urls[1].url
    ELSE DEFAULT_GITHUB_URL

\* The loop of set_default_github_url (the save that follows it is made by
\* the calling action).
set_default_github_url(urls, url) ==
    [i \in 1..Len(urls) |-> [urls[i] EXCEPT !.is_default = (urls[i].url = url)]]

\* A name check that compares the names as typed.
NameExists_caseSensitive(urls, name) ==
    \E i \in 1..Len(urls) : urls[i].name = name

\* The name check of add_github_url.
NameExists(urls, name) ==
    \E i \in 1..Len(urls) : Lower(urls[i].name) = Lower(name)

\* A remove that promotes the last remaining entry.
FirstRemaining_last(rest) == rest[Len(rest)]

\* The entry remove_github_url makes the default after it removed the default.
FirstRemaining(rest) == rest[1]

RemoveAt(s, k) == SubSeq(s, 1, k - 1) \o SubSeq(s, k + 1, Len(s))

NoCall == <<>>
NoBulk == [active |-> FALSE]
NoOutcome == [tag |-> "none"]

Report(op, result, choice) == [op |-> op, result |-> result, choice |-> choice]

(***************************************************************************)
(* Operator input.                                                         *)
(***************************************************************************)
NameInputs == { <<" ">>, <<"a">>, <<"A"," ">>, <<"b">> }

UrlInputs == { <<" ">>, <<"u"," ">>, DEFAULT_GITHUB_URL }

AnswerInputs == { <<"Y">>, <<"n">> }

ChoiceInputs == { <<"x">>, <<"0">>, <<"1">>, <<"2">>, <<" ","3">>, <<"4">> }

UrlsUnchanged == UNCHANGED <<github_urls, urlsFile, writeFailures>>
RestUnchanged == UNCHANGED <<accounts, accountsFile, pc, bulk, calls, inflight, outcome>>

\* The write outcomes the failure budget still allows for a handler that
\* writes once (n = 1) or twice (n = 2).
Writes(n) ==
    { ws \in [1..n -> WriteOutcomes] :
        writeFailures + Failures(ws) <= MaxWriteFailures }

(***************************************************************************)
(* add_github_url                                                          *)
(***************************************************************************)
\* A handler that asks about the default for the first entry too.
FirstEntry_never(urls) == FALSE

\* len(self.github_urls) == 1: the entry just appended is the only one.
FirstEntry(urls) == Len(urls) = 1

add_github_url(nameIn, urlIn, answer) ==
    LET name == Strip(nameIn)
        url == Strip(urlIn)
        added == Append(github_urls, [name |-> name, url |-> url, is_default |-> FALSE])
        makeDefault == FirstEntry(added) \/ Lower(answer) = <<"y">>
        final == IF makeDefault THEN set_default_github_url(added, url) ELSE added
    IN
    /\ pc = "menu"
    /\ CASE name = <<>> ->
              /\ console' = Report("add_github_url", "Script name is required", 0)
              /\ UrlsUnchanged
         [] name # <<>> /\ url = <<>> ->
              /\ console' = Report("add_github_url", "GitHub URL is required", 0)
              /\ UrlsUnchanged
         [] name # <<>> /\ url # <<>> /\ NameExists(github_urls, name) ->
              /\ console' = Report("add_github_url", "already exists", 0)
              /\ UrlsUnchanged
         [] OTHER ->
              /\ Len(github_urls) < MaxUrls
              /\ \E ws \in Writes(IF makeDefault THEN 2 ELSE 1) :
                    /\ urlsFile' =
                          IF makeDefault
                          THEN save_github_urls(
                                   save_github_urls(urlsFile, added, ws[1]),
                                   final, ws[2])
                          ELSE save_github_urls(urlsFile, added, ws[1])
                    /\ writeFailures' = writeFailures + Failures(ws)
              /\ github_urls' = final
              /\ console' = Report("add_github_url",
                                   IF makeDefault THEN "added, set as default"
                                   ELSE "added", Len(final))
    /\ RestUnchanged

AddGithubUrl ==
    \E nameIn \in NameInputs, urlIn \in UrlInputs, answer \in AnswerInputs :
        add_github_url(nameIn, urlIn, answer)

(***************************************************************************)
(* remove_github_url                                                       *)
(***************************************************************************)
remove_github_url(choiceIn) ==
    LET parsed == ParseInt(choiceIn)
        choice == parsed.val
        removed_item == github_urls[choice]
        rest == RemoveAt(github_urls, choice)
        reset == removed_item.is_default /\ rest # <<>>
        final == IF reset
                 THEN set_default_github_url(rest, FirstRemaining(rest).url)
                 ELSE rest
    IN
    /\ pc = "menu"
    /\ CASE github_urls = <<>> ->
              /\ console' = Report("remove_github_url", "No GitHub URLs to remove.", 0)
              /\ UrlsUnchanged
         [] github_urls # <<>> /\ ~parsed.ok ->
              /\ console' = Report("remove_github_url", "Invalid choice", 0)
              /\ UrlsUnchanged
         [] github_urls # <<>> /\ parsed.ok /\ ~(1 <= choice /\ choice <= Len(github_urls)) ->
              /\ console' = Report("remove_github_url", "Cancelled", 0)
              /\ UrlsUnchanged
         [] OTHER ->
              /\ \E ws \in Writes(IF reset THEN 2 ELSE 1) :
                    /\ urlsFile' =
                          IF reset
                          THEN save_github_urls(
                                   save_github_urls(urlsFile, rest, ws[1]),
                                   final, ws[2])
                          ELSE save_github_urls(urlsFile, rest, ws[1])
                    /\ writeFailures' = writeFailures + Failures(ws)
              /\ github_urls' = final
              /\ console' = Report("remove_github_url",
                                   IF reset THEN "removed, default reset"
                                   ELSE "removed", choice)
    /\ RestUnchanged

RemoveGithubUrl ==
    \E choiceIn \in ChoiceInputs : remove_github_url(choiceIn)

(***************************************************************************)
(* set_default_github_url_menu                                             *)
(***************************************************************************)
set_default_github_url_menu(choiceIn) ==
    LET parsed == ParseInt(choiceIn)
        choice == parsed.val
        selected_url == github_urls[choice].url
        final == set_default_github_url(github_urls, selected_url)
    IN
    /\ pc = "menu"
    /\ CASE github_urls = <<>> ->
              /\ console' = Report("set_default", "No GitHub URLs found.", 0)
              /\ UrlsUnchanged
         [] github_urls # <<>> /\ ~parsed.ok ->
              /\ console' = Report("set_default", "Invalid choice", 0)
              /\ UrlsUnchanged
         [] github_urls # <<>> /\ parsed.ok /\ ~(1 <= choice /\ choice <= Len(github_urls)) ->
              /\ console' = Report("set_default", "Cancelled", 0)
              /\ UrlsUnchanged
         [] OTHER ->
              /\ \E ws \in Writes(1) :
                    /\ urlsFile' = save_github_urls(urlsFile, final, ws[1])
                    /\ writeFailures' = writeFailures + Failures(ws)
              /\ github_urls' = final
              /\ console' = Report("set_default", "Default GitHub URL set", choice)
    /\ RestUnchanged

SetDefaultGithubUrl ==
    \E choiceIn \in ChoiceInputs : set_default_github_url_menu(choiceIn)

(***************************************************************************)
(* The script-source management menu, entered after construction with a    *)
(* script-source file that was missing (the seeded list) or malformed (the *)
(* empty list).                                                            *)
(***************************************************************************)
InitUrls ==
    /\ \E f \in {MissingFile, MalformedFile}, w \in WriteOutcomes :
          /\ Failures(<<w>>) <= MaxWriteFailures
          /\ f.state # "missing" => w = "ok"
          /\ github_urls = load_github_urls(f, w).urls
          /\ urlsFile = load_github_urls(f, w).file
          /\ writeFailures = IF f.state = "missing" THEN Failures(<<w>>) ELSE 0
    /\ accounts = <<>>
    /\ accountsFile = MissingFile
    /\ pc = "menu"
    /\ console = Report("init", "", 0)
    /\ bulk = NoBulk
    /\ calls = <<>>
    /\ inflight = NoCall
    /\ outcome = NoOutcome

\* The number of entries flagged default.
DefaultCount(urls) == Cardinality({i \in 1..Len(urls) : urls[i].is_default})

NextUrls == AddGithubUrl \/ RemoveGithubUrl \/ SetDefaultGithubUrl

SpecUrls == InitUrls /\ [][NextUrls]_vars

(***************************************************************************)
(* Claims about the script-source collection (checked under SpecUrls).     *)
(***************************************************************************)

\* C1: in every reachable state at most one script-source entry has
\* is_default = TRUE.
C1_AtMostOneDefault == DefaultCount(github_urls) <= 1

\* C2: right after set-default selected entry i, entry i is flagged default
\* and no other entry is.
C2_SetDefaultExactlyOne ==
    (console.op = "set_default" /\ console.result = "Default GitHub URL set")
        => \A j \in 1..Len(github_urls) :
               github_urls[j].is_default <=> (j = console.choice)

\* What a remove step that removed entry k does to the collection.
C3_RemoveStep ==
    LET k == console'.choice
        rest == RemoveAt(github_urls, k)
    IN  (console'.op = "remove_github_url"
            /\ console'.result \in {"removed", "removed, default reset"})
        => /\ Len(github_urls') = Len(github_urls) - 1
           /\ \A i \in 1..Len(rest) :
                 /\ github_urls'[i].name = rest[i].name
                 /\ github_urls'[i].url = rest[i].url
           /\ (github_urls[k].is_default /\ rest # <<>>)
                 => github_urls'[1].is_default
           /\ (github_urls[k].is_default /\ rest = <<>>)
                 => (github_urls' = <<>> /\ DefaultCount(github_urls') = 0)
           /\ ~github_urls[k].is_default => github_urls' = rest

\* C3: a remove step that removes the entry flagged default makes the first
\* remaining entry default when entries remain and leaves the empty
\* collection (no default) when it was the last one; a remove step that
\* removes an entry not flagged default leaves the remaining entries, flags
\* included, as they were.
C3_RemoveDefault == [][C3_RemoveStep]_vars

\* A default entry was removed from the middle or the end of the list and the
\* first remaining entry, which was not default before, now is.
C3_Witness ==
    /\ console.op = "remove_github_url"
    /\ console.result = "removed, default reset"
    /\ console.choice > 1
    /\ Len(github_urls) >= 2
    /\ github_urls[1].is_default
    /\ ~github_urls[2].is_default

\* No two entries have names that are equal ignoring letter case.
NoDuplicateNames ==
    \A i, j \in 1..Len(github_urls) :
        i # j => Lower(github_urls[i].name) # Lower(github_urls[j].name)

\* An add step answered "already exists" changes neither the collection nor
\* the file.
C4_RejectStep ==
    (console'.op = "add_github_url" /\ console'.result = "already exists")
        => (github_urls' = github_urls /\ urlsFile' = urlsFile)

\* C4: an add whose name equals an existing name ignoring case is rejected
\* without changing the collection or the file, so names stay unique
\* ignoring case.
C4_DuplicateNameRejected == []NoDuplicateNames /\ [][C4_RejectStep]_vars

\* Name "A" was rejected while an entry named "a" (and none named "A") is stored.
C4_Witness ==
    /\ console.op = "add_github_url"
    /\ console.result = "already exists"
    /\ \E i \in 1..Len(github_urls) : github_urls[i].name = <<"a">>
    /\ Len(github_urls) >= 2

(***************************************************************************)
(* The remote deployment API as deploy_worker sees it: what                *)
(* requests.post(API_URL, ...) does.  It returns a response (status_code,  *)
(* text, and what response.json() gives for that text) or raises.          *)
(***************************************************************************)
JTrue == [t |-> "bool", s |-> "True"]
JFalse == [t |-> "bool", s |-> "False"]
JNull == [t |-> "null", s |-> "None"]
JStr(x) == [t |-> "str", s |-> x]
JNum(x) == [t |-> "num", s |-> x]

\* Python truth of a JSON value.
Truthy(v) ==
    CASE v.t = "bool" -> v.s = "True"
      [] v.t = "num" -> v.s \notin {"0", "0.0"}
      [] v.t = "str" -> v.s # ""
      [] v.t = "null" -> FALSE

\* dict.get(key) and dict.get(key, default)
Get(obj, key) == IF key \in DOMAIN obj THEN obj[key] ELSE JNull
GetOr(obj, key, default) == IF key \in DOMAIN obj THEN obj[key] ELSE default

JsonObject(obj) == [kind |-> "object", obj |-> obj, msg |-> ""]
JsonList == [kind |-> "list", obj |-> <<>>, msg |-> "'list' object has no attribute 'get'"]
JsonInvalid == [kind |-> "invalid", obj |-> <<>>,
                msg |-> "Expecting value: line 1 column 1 (char 0)"]

Bodies ==
    { [text |-> "{\"success\": true, \"sub\": \"https://sub\"}",
       json |-> JsonObject(("success" :> JTrue) @@ ("sub" :> JStr("https://sub")))],
      [text |-> "{\"success\": false, \"error\": \"quota exceeded\"}",
       json |-> JsonObject(("success" :> JFalse) @@ ("error" :> JStr("quota exceeded")))],
      [text |-> "{\"success\": false}",
       json |-> JsonObject("success" :> JFalse)],
      [text |-> "{\"error\": \"denied\"}",
       json |-> JsonObject("error" :> JStr("denied"))],
      [text |-> "{\"success\": 1}",
       json |-> JsonObject("success" :> JNum("1"))],
      [text |-> "{\"success\": \"\", \"error\": null}",
       json |-> JsonObject(("success" :> JStr("")) @@ ("error" :> JNull))],
      [text |-> "boom", json |-> JsonInvalid],
      [text |-> "[]", json |-> JsonList] }

StatusCodes == {200, 201, 500}

Responded(status, body) ==
    [kind |-> "response", status_code |-> status, text |-> body.text,
     json |-> body.json, cls |-> "", msg |-> ""]

Raised(cls, msg) ==
    [kind |-> "raise", status_code |-> 0, text |-> "", json |-> JsonInvalid,
     cls |-> cls, msg |-> msg]

\* The remote-call outcomes: a response, or a transport error.
RemoteOutcomes ==
    { Responded(st, b) : st \in StatusCodes, b \in Bodies }
    \cup { Raised("Timeout", "Read timed out. (read timeout=30)"),
           Raised("ConnectionError", "Connection refused") }

\* The operator's Ctrl-C while the process blocks in requests.post.
Interrupt == Raised("KeyboardInterrupt", "")

NetOutcomes == RemoteOutcomes \cup {Interrupt}

\* The classes `except Exception` catches.
ExceptionSubclasses ==
    {"Exception", "ValueError", "AttributeError", "KeyError",
     "Timeout", "ConnectionError"}

(***************************************************************************)
(* deploy_worker                                                           *)
(***************************************************************************)
Return(value) == [tag |-> "return", value |-> value, cls |-> "", msg |-> ""]
Raise(cls, msg) == [tag |-> "raise", value |-> <<>>, cls |-> cls, msg |-> msg]

request_data(account, worker_name, github_url) ==
    [email |-> account.email, globalAPIKey |-> account.global_api_key,
     workerName |-> worker_name, githubUrl |-> github_url]

\* A success test that accepts only the JSON value true.
IsSuccess_strict(result_data) == Get(result_data, "success") = JTrue

\* if result_data.get("success")
IsSuccess(result_data) == Truthy(Get(result_data, "success"))

\* The message of the exception raised for a non-200 status.
HttpError(net) == "HTTP " \o ToString(net.status_code) \o ": " \o net.text

\* The message of the exception raised for a 200 whose success is falsy.
AppError(obj) ==
    "Deployment failed: " \o GetOr(obj, "error", JStr("Unknown error")).s

\* The try block of deploy_worker, given what requests.post did.
deploy_try(net) ==
    IF net.kind = "raise" THEN Raise(net.cls, net.msg)
    ELSE IF net.status_code = 200
    THEN CASE net.json.kind = "invalid" -> Raise("ValueError", net.json.msg)
           [] net.json.kind = "list" -> Raise("AttributeError", net.json.msg)
           [] OTHER ->
                IF IsSuccess(net.json.obj)
                THEN Return([success |-> TRUE, data |-> net.json.obj])
                ELSE Raise("Exception", AppError(net.json.obj))
    ELSE Raise("Exception", HttpError(net))

\* A handler for transport errors only.
Catches_transportOnly(cls) == cls \in {"Timeout", "ConnectionError"}

\* except Exception as e
Catches(cls) == cls \in ExceptionSubclasses

\* deploy_worker: what crosses its call boundary, a returned dict or an
\* exception the handler does not catch.
deploy_worker(net) ==
    LET t == deploy_try(net)
    IN  IF t.tag = "raise" /\ Catches(t.cls)
        THEN Return([success |-> FALSE, error |-> t.msg])
        ELSE t

(***************************************************************************)
(* Accounts.                                                               *)
(***************************************************************************)
Acct1 == [email |-> <<"p","@","q">>, global_api_key |-> <<"k","1">>]
Acct2 == [email |-> <<"r","@","s">>, global_api_key |-> <<"k","2">>]
AccountPool == {Acct1, Acct2}

MaxAccounts == 2

AccountLists == UNION { [1..n -> AccountPool] : n \in 0..MaxAccounts }

EmailInputs == { <<" ">>, <<"p","q">>, <<" ","p","@","q">> }
KeyInputs == { <<" ">>, <<"k","1"," ">> }

Contains(s, c) == \E i \in 1..Len(s) : s[i] = c

\* add_account: the list and the file it leaves, and what it reports.
add_account(accts, file, emailIn, keyIn, w) ==
    LET email == Strip(emailIn)
        api_key == Strip(keyIn)
        added == Append(accts, [email |-> email, global_api_key |-> api_key])
    IN  IF email = <<>> \/ ~Contains(email, "@")
        THEN [accounts |-> accts, file |-> file, wrote |-> FALSE,
              result |-> "Please enter a valid email"]
        ELSE IF api_key = <<>>
        THEN [accounts |-> accts, file |-> file, wrote |-> FALSE,
              result |-> "API Key is required"]
        ELSE [accounts |-> added, file |-> save_accounts(file, added, w),
              wrote |-> TRUE, result |-> "added"]

(***************************************************************************)
(* select_github_url                                                       *)
(***************************************************************************)
select_github_url(urls, choiceIn) ==
    LET choice == Strip(choiceIn)
        parsed == ParseInt(choice)
    IN  IF urls = <<>> THEN get_default_github_url(urls)
        ELSE IF choice = <<>> THEN get_default_github_url(urls)
        ELSE IF ~parsed.ok THEN get_default_github_url(urls)
        ELSE IF 1 <= parsed.val /\ parsed.val <= Len(urls)
        THEN urls[parsed.val].url
        ELSE get_default_github_url(urls)

\* str.split(",")
RECURSIVE SplitComma(_)
SplitComma(s) ==
    IF Contains(s, ",")
    THEN LET k == CHOOSE i \in 1..Len(s) :
                     s[i] = "," /\ \A j \in 1..(i - 1) : s[j] # ","
         IN  <<SubSeq(s, 1, k - 1)>> \o SplitComma(SubSeq(s, k + 1, Len(s)))
    ELSE <<s>>

\* [name.strip() for name in worker_names_input.split(",")]
WorkerNames(worker_names_input) ==
    LET parts == SplitComma(worker_names_input)
    IN  [i \in 1..Len(parts) |-> Strip(parts[i])]

(***************************************************************************)
(* Operator input of the deployment handlers.                              *)
(***************************************************************************)
WorkerNameInputs == { <<" ">>, <<"w"," ">> }

WorkerListInputs ==
    { <<" ">>, <<"a">>, <<" ","a"," ",","," ","b">>, <<",">> }

UrlChoiceInputs == { <<>>, <<"x">>, <<"2">> }

\* What the operator types at the script-source prompt of a bulk run: Enter,
\* or something that is no number (both give the default URL).
BulkUrlChoiceInputs == { <<>>, <<"x">> }

AccountChoiceInputs == { <<"x">>, <<"0">>, <<"1">>, <<"2">>, <<"3">> }

\* What the operator types at a confirmation prompt.
ConfirmInputs == { <<"Y">>, <<"n">>, <<"y"," ">> }

\* A confirmation that takes everything but "n" for a yes.
Confirmed_unlessNo(answer) == Lower(answer) # <<"n">>

\* input(...).lower() == "y"
Confirmed(answer) == Lower(answer) = <<"y">>

\* The responses drawn for the calls of a bulk run.
BulkOutcomes ==
    { Responded(200, b) : b \in { c \in Bodies : c.text \in
          { "{\"success\": true, \"sub\": \"https://sub\"}",
            "{\"success\": false, \"error\": \"quota exceeded\"}" } } }
    \cup { Responded(500, b) : b \in { c \in Bodies : c.text = "boom" } }
    \cup { Raised("Timeout", "Read timed out. (read timeout=30)"), Interrupt }

StoreUnchanged ==
    UNCHANGED <<accounts, github_urls, accountsFile, urlsFile, writeFailures>>

(***************************************************************************)
(* single_deploy                                                           *)
(***************************************************************************)
\* The part of single_deploy from the account prompt on, with the accounts it
\* has by then.
single_deploy_try(choiceIn, workerIn, urlChoiceIn, confirm) ==
    LET parsed == ParseInt(choiceIn)
        choice == parsed.val
        account == accounts'[choice]
        worker_name == Strip(workerIn)
        github_url == select_github_url(github_urls, urlChoiceIn)
        request == request_data(account, worker_name, github_url)
    IN  CASE ~parsed.ok ->
              /\ console' = Report("single_deploy", "Invalid input", 0)
              /\ calls' = <<>>
              /\ UNCHANGED <<pc, inflight>>
          [] parsed.ok /\ ~(1 <= choice /\ choice <= Len(accounts')) ->
              /\ console' = Report("single_deploy", "Invalid choice", 0)
              /\ calls' = <<>>
              /\ UNCHANGED <<pc, inflight>>
          [] parsed.ok /\ 1 <= choice /\ choice <= Len(accounts')
                /\ worker_name = <<>> ->
              /\ console' = Report("single_deploy", "Worker name is required", 0)
              /\ calls' = <<>>
              /\ UNCHANGED <<pc, inflight>>
          [] parsed.ok /\ 1 <= choice /\ choice <= Len(accounts')
                /\ worker_name # <<>> /\ ~Confirmed(confirm) ->
              /\ console' = Report("single_deploy", "not confirmed", choice)
              /\ calls' = <<>>
              /\ UNCHANGED <<pc, inflight>>
          [] OTHER ->
              /\ console' = Report("single_deploy", "Deploying", choice)
              /\ calls' = <<request>>
              /\ inflight' = request
              /\ pc' = "single_wait"

\* "Do you want to add an account now?" answered y: add_account runs.
single_deploy_add ==
    \E emailIn \in EmailInputs, keyIn \in KeyInputs, ws \in Writes(1) :
        LET r == add_account(accounts, accountsFile, emailIn, keyIn, ws[1])
        IN  /\ r.wrote \/ ws[1] = "ok"
            /\ accounts' = r.accounts
            /\ accountsFile' = r.file
            /\ writeFailures' = writeFailures + (IF r.wrote THEN Failures(ws) ELSE 0)

single_deploy(choiceIn, workerIn, urlChoiceIn, confirm) ==
    /\ pc = "menu"
    /\ IF accounts = <<>>
       THEN \E addAnswer \in AnswerInputs :
               IF Lower(addAnswer) = <<"y">>
               THEN single_deploy_add
               ELSE UNCHANGED <<accounts, accountsFile, writeFailures>>
       ELSE UNCHANGED <<accounts, accountsFile, writeFailures>>
    /\ IF accounts' = <<>>
       THEN /\ console' = Report("single_deploy", "No accounts found", 0)
            /\ calls' = <<>>
            /\ UNCHANGED <<pc, inflight>>
       ELSE single_deploy_try(choiceIn, workerIn, urlChoiceIn, confirm)
    /\ outcome' = NoOutcome
    /\ UNCHANGED <<github_urls, urlsFile, bulk>>

SingleDeploy ==
    \E choiceIn \in AccountChoiceInputs, workerIn \in WorkerNameInputs,
       urlChoiceIn \in UrlChoiceInputs, confirm \in ConfirmInputs :
        single_deploy(choiceIn, workerIn, urlChoiceIn, confirm)

\* The call of deploy_worker in single_deploy returns or raises; what it
\* raises is caught by the bare except of single_deploy.
single_deploy_return(net) ==
    LET r == deploy_worker(net)
    IN  /\ pc = "single_wait"
        /\ outcome' = r @@ [net |-> net]
        /\ console' = Report("single_deploy",
                             IF r.tag = "raise" THEN "Invalid input"
                             ELSE IF r.value.success THEN "DEPLOYMENT SUCCESSFUL"
                             ELSE "Deployment failed", 0)
        /\ inflight' = NoCall
        /\ pc' = "menu"
        /\ StoreUnchanged
        /\ UNCHANGED <<bulk, calls>>

SingleReturn == \E net \in NetOutcomes : single_deploy_return(net)

(***************************************************************************)
(* bulk_deploy                                                             *)
(***************************************************************************)
\* A handler that takes every line, the empty one too, for a list of names.
NoWorkerNames_never(worker_names_input) == FALSE

\* not worker_names_input
NoWorkerNames(worker_names_input) == worker_names_input = <<>>

\* From the start of bulk_deploy to the confirmation prompt.
bulk_deploy(namesIn, urlChoiceIn, confirm) ==
    LET worker_names_input == Strip(namesIn)
        worker_names == WorkerNames(worker_names_input)
        github_url == select_github_url(github_urls, urlChoiceIn)
    IN
    /\ pc = "menu"
    /\ CASE accounts = <<>> ->
              /\ console' = Report("bulk_deploy", "No accounts found", 0)
              /\ calls' = <<>>
              /\ UNCHANGED <<pc, bulk>>
         [] accounts # <<>> /\ NoWorkerNames(worker_names_input) ->
              /\ console' = Report("bulk_deploy",
                                   "Please enter at least one worker name", 0)
              /\ calls' = <<>>
              /\ UNCHANGED <<pc, bulk>>
         [] accounts # <<>> /\ ~NoWorkerNames(worker_names_input)
               /\ ~Confirmed(confirm) ->
              /\ console' = Report("bulk_deploy", "Cancelled", 0)
              /\ calls' = <<>>
              /\ UNCHANGED <<pc, bulk>>
         [] OTHER ->
              /\ console' = Report("bulk_deploy", "IN PROGRESS", 0)
              /\ bulk' = [active |-> TRUE,
                          worker_names |-> worker_names,
                          github_url |-> github_url,
                          results |-> <<>>,
                          successful |-> 0,
                          failed |-> 0,
                          total_deployments |-> Len(worker_names) * Len(accounts),
                          current |-> 0,
                          ai |-> 1,
                          wi |-> 1]
              /\ calls' = <<>>
              /\ pc' = "bulk_loop"
    /\ outcome' = NoOutcome
    /\ StoreUnchanged
    /\ UNCHANGED inflight

BulkDeploy ==
    \E namesIn \in WorkerListInputs, urlChoiceIn \in BulkUrlChoiceInputs,
       confirm \in ConfirmInputs :
        bulk_deploy(namesIn, urlChoiceIn, confirm)

\* The nested for loops have a pair left to visit.
PairsLeft(b) == b.ai <= Len(accounts) /\ b.wi <= Len(b.worker_names)

\* Loops nested the other way round: worker names outside, accounts inside.
Advance_workerMajor(b) ==
    IF b.ai < Len(accounts)
    THEN [b EXCEPT !.ai = b.ai + 1]
    ELSE [b EXCEPT !.ai = IF b.wi < Len(b.worker_names) THEN 1 ELSE b.ai + 1,
                   !.wi = IF b.wi < Len(b.worker_names) THEN b.wi + 1 ELSE 1]

\* The loop position after the pair (ai, wi): the inner loop runs over the
\* worker names, the outer one over the accounts.
Advance(b) ==
    IF b.wi < Len(b.worker_names)
    THEN [b EXCEPT !.wi = b.wi + 1]
    ELSE [b EXCEPT !.ai = b.ai + 1, !.wi = 1]

\* The request of the pair the loops are at.
PairRequest(b) ==
    request_data(accounts[b.ai], b.worker_names[b.wi], b.github_url)

\* The top of the loop body up to the blocking post inside deploy_worker.
BulkPost ==
    /\ pc = "bulk_loop"
    /\ PairsLeft(bulk)
    /\ bulk' = [bulk EXCEPT !.current = bulk.current + 1]
    /\ calls' = Append(calls, PairRequest(bulk))
    /\ inflight' = PairRequest(bulk)
    /\ pc' = "bulk_wait"
    /\ StoreUnchanged
    /\ UNCHANGED <<console, outcome>>

\* Counters that never count a failure.
Tally_dropsFailure(b, result) ==
    IF result.success
    THEN [b EXCEPT !.successful = b.successful + 1]
    ELSE b

\* The counters after a result.
Tally(b, result) ==
    IF result.success
    THEN [b EXCEPT !.successful = b.successful + 1]
    ELSE [b EXCEPT !.failed = b.failed + 1]

\* The result as the loop stores it.
Tagged(result, account, worker_name) ==
    result @@ [account |-> account.email, worker |-> worker_name]

\* A loop that breaks out at the first failed result.
AfterResult_failFast(b, result) ==
    IF result.success
    THEN Advance(Tally([b EXCEPT !.results = Append(b.results, result)], result))
    ELSE [Tally([b EXCEPT !.results = Append(b.results, result)], result)
             EXCEPT !.ai = Len(accounts) + 1]

\* The loop body after deploy_worker returned: the result is appended and
\* counted, and the loops go on with the next pair.
AfterResult(b, result) ==
    Advance(Tally([b EXCEPT !.results = Append(b.results, result)], result))

\* deploy_worker comes back: its result is tagged, appended and counted, and
\* the loops move on; an exception it lets through leaves bulk_deploy and is
\* caught by main_menu, which ends the session.
bulk_deploy_return(net) ==
    LET r == deploy_worker(net)
        result == Tagged(r.value, accounts[bulk.ai], bulk.worker_names[bulk.wi])
    IN  /\ pc = "bulk_wait"
        /\ outcome' = r @@ [net |-> net]
        /\ inflight' = NoCall
        /\ IF r.tag = "raise"
           THEN /\ pc' = "exited"
                /\ console' = Report("main_menu", "Program interrupted by user", 0)
                /\ bulk' = NoBulk
           ELSE /\ pc' = "bulk_loop"
                /\ bulk' = AfterResult(bulk, result)
                /\ UNCHANGED console
        /\ StoreUnchanged
        /\ UNCHANGED calls

BulkReturn == \E net \in BulkOutcomes : bulk_deploy_return(net)

\* The loops are over: the summary is printed and Enter is awaited.
BulkSummary ==
    /\ pc = "bulk_loop"
    /\ ~PairsLeft(bulk)
    /\ console' = Report("bulk_deploy", "BULK DEPLOYMENT COMPLETE", 0)
    /\ pc' = "bulk_summary"
    /\ StoreUnchanged
    /\ UNCHANGED <<bulk, calls, inflight, outcome>>

\* Enter: bulk_deploy returns to the main menu.
BulkDone ==
    /\ pc = "bulk_summary"
    /\ pc' = "menu"
    /\ bulk' = NoBulk
    /\ calls' = <<>>
    /\ outcome' = NoOutcome
    /\ StoreUnchanged
    /\ UNCHANGED <<console, inflight>>

(***************************************************************************)
(* The deployment handlers, entered from the main menu of a session whose  *)
(* files held a list of accounts and two script sources.                   *)
(***************************************************************************)
StoredUrls ==
    Append(default_urls, [name |-> <<"a">>, url |-> <<"u">>, is_default |-> FALSE])

Init ==
    /\ accounts \in AccountLists
    /\ accountsFile = FileOf(accounts)
    /\ github_urls = StoredUrls
    /\ urlsFile = FileOf(github_urls)
    /\ writeFailures = 0
    /\ pc = "menu"
    /\ console = Report("init", "", 0)
    /\ bulk = NoBulk
    /\ calls = <<>>
    /\ inflight = NoCall
    /\ outcome = NoOutcome

Next ==
    \/ SingleDeploy
    \/ SingleReturn
    \/ BulkDeploy
    \/ BulkPost
    \/ BulkReturn
    \/ BulkSummary
    \/ BulkDone

Spec == Init /\ [][Next]_vars

\* The control thread runs on: a loop iteration that can start does start, the
\* post returns (it has a 30 second timeout), and the summary is printed.
FairSpec ==
    Spec /\ WF_vars(BulkPost) /\ WF_vars(BulkReturn) /\ WF_vars(BulkSummary)

(***************************************************************************)
(* Construction: __init__ loads both collections from the files.           *)
(***************************************************************************)
UrlFileLists ==
    { <<>>, default_urls, StoredUrls,
      << [name |-> <<"a">>, url |-> <<"u">>, is_default |-> FALSE] >> }

InitLoad ==
    /\ accountsFile \in {MissingFile, MalformedFile}
                          \cup { FileOf(l) : l \in AccountLists }
    /\ urlsFile \in {MissingFile, MalformedFile}
                      \cup { FileOf(l) : l \in UrlFileLists }
    /\ accounts = <<>>
    /\ github_urls = <<>>
    /\ writeFailures = 0
    /\ pc = "boot"
    /\ console = Report("main", "", 0)
    /\ bulk = NoBulk
    /\ calls = <<>>
    /\ inflight = NoCall
    /\ outcome = NoOutcome

\* CFWorkerCLI(): load_accounts, then load_github_urls, which writes the
\* default list when the file is missing.
Construct ==
    /\ pc = "boot"
    /\ \E ws \in Writes(1) :
          LET loaded == load_github_urls(urlsFile, ws[1])
          IN  /\ urlsFile.state # "missing" => ws[1] = "ok"
              /\ accounts' = load_accounts(accountsFile)
              /\ github_urls' = loaded.urls
              /\ urlsFile' = loaded.file
              /\ writeFailures' = writeFailures + Failures(ws)
    /\ pc' = "menu"
    /\ console' = Report("__init__", "", 0)
    /\ UNCHANGED <<accountsFile, bulk, calls, inflight, outcome>>

NextLoad == Construct

SpecLoad == InitLoad /\ [][NextLoad]_vars


(***************************************************************************)
(* Claims about bulk deployment (checked under Spec and FairSpec).         *)
(***************************************************************************)
InBulk == pc \in {"bulk_loop", "bulk_wait", "bulk_summary"}

NoRepeats(seq) == \A i, j \in 1..Len(seq) : i # j => seq[i] # seq[j]

\* The request of the k-th pair of accounts x worker_names in account-major
\* order.
ProductRequest(k) ==
    LET m == Len(bulk.worker_names)
    IN  [email |-> accounts[((k - 1) \div m) + 1].email,
         globalAPIKey |-> accounts[((k - 1) \div m) + 1].global_api_key,
         workerName |-> bulk.worker_names[((k - 1) % m) + 1],
         githubUrl |-> bulk.github_url]

C6_CountsAddUp ==
    InBulk =>
        /\ bulk.successful + bulk.failed = Len(bulk.results)
        /\ bulk.successful =
              Cardinality({k \in 1..Len(bulk.results) : bulk.results[k].success})
        /\ pc # "bulk_wait" =>
              /\ bulk.successful + bulk.failed = Len(calls)
              /\ bulk.successful + bulk.failed = bulk.current
        /\ bulk.total_deployments = Len(bulk.worker_names) * Len(accounts)
        /\ pc = "bulk_summary" =>
              bulk.successful + bulk.failed = bulk.total_deployments

\* A summary of four calls, some succeeded and some failed.
C6_Witness ==
    /\ pc = "bulk_summary"
    /\ bulk.total_deployments = 4
    /\ bulk.successful = 1
    /\ bulk.failed = 3

\* One result per call made, in call order, tagged with the pair's account
\* email and worker name; all pairs at the summary.
C7_ResultsPerPair ==
    InBulk =>
        /\ \A k \in 1..Len(bulk.results) :
              /\ bulk.results[k].account = calls[k].email
              /\ bulk.results[k].worker = calls[k].workerName
              /\ calls[k] = ProductRequest(k)
        /\ pc = "bulk_summary" =>
              Len(bulk.results) = Len(accounts) * Len(bulk.worker_names)

\* A call that returns a failure result while pairs are left is followed by
\* the next iteration, not by the summary or the menu.
C7_FailureStep ==
    (pc = "bulk_wait" /\ outcome'.tag = "return" /\ ~outcome'.value.success)
        => /\ pc' = "bulk_loop"
           /\ Len(bulk'.results) = Len(bulk.results) + 1
           /\ Len(bulk'.results) < Len(accounts) * Len(bulk.worker_names)
                 => PairsLeft(bulk')

\* C7: a failed call never ends a bulk run: every remaining pair is still
\* attempted, results are appended in call order with the pair's tags, and the
\* run reaches the summary (unless the operator interrupts the process).
C7_NoFailFast ==
    /\ []C7_ResultsPerPair
    /\ [][C7_FailureStep]_vars
    /\ (pc \in {"bulk_loop", "bulk_wait"}) ~> (pc \in {"bulk_summary", "exited"})

\* The summary of a run of four calls whose first three calls failed, one
\* with an HTTP error, one with an application-level failure, one with a
\* network error, and whose last call succeeded.
C7_Witness ==
    /\ pc = "bulk_summary"
    /\ Len(bulk.results) = 4
    /\ ~bulk.results[1].success /\ bulk.results[1].error = "HTTP 500: boom"
    /\ ~bulk.results[2].success
    /\ bulk.results[2].error = "Deployment failed: quota exceeded"
    /\ ~bulk.results[3].success
    /\ bulk.results[3].error = "Read timed out. (read timeout=30)"
    /\ bulk.results[4].success

(***************************************************************************)
(* Claims about deploy_worker (checked under Spec).                        *)
(***************************************************************************)
Called == outcome.tag # "none"

\* The success values the API's JSON can carry that Python takes as true.
TrueIndicators == {JTrue, JNum("1")}

\* The response has status 200 and a JSON object with a truthy success field.
SucceededRemotely ==
    /\ outcome.net.kind = "response"
    /\ outcome.net.status_code = 200
    /\ outcome.net.json.kind = "object"
    /\ "success" \in DOMAIN outcome.net.json.obj
    /\ outcome.net.json.obj["success"] \in TrueIndicators

ReturnedSuccess == outcome.tag = "return" /\ outcome.value.success

\* C8: deploy_worker returns {success: True, data: payload} exactly when the
\* status is 200 and the JSON success indicator is truthy; a non-200 status
\* gives the error "HTTP <status>: <body>"; a 200 with a falsy indicator gives
\* "Deployment failed: " followed by the server's error string, or by
\* "Unknown error" when there is none.
C8_DeployResult ==
    Called =>
        /\ ReturnedSuccess <=> SucceededRemotely
        /\ ReturnedSuccess =>
              outcome.value = [success |-> TRUE, data |-> outcome.net.json.obj]
        /\ (outcome.net.kind = "response" /\ outcome.net.status_code # 200) =>
              /\ outcome.tag = "return"
              /\ outcome.value =
                    [success |-> FALSE,
                     error |-> "HTTP " \o ToString(outcome.net.status_code)
                                  \o ": " \o outcome.net.text]
        /\ (outcome.net.kind = "response" /\ outcome.net.status_code = 500
               /\ outcome.net.text = "boom") =>
              outcome.value = [success |-> FALSE, error |-> "HTTP 500: boom"]
        /\ (outcome.net.kind = "response" /\ outcome.net.status_code = 200
               /\ outcome.net.json.kind = "object" /\ ~SucceededRemotely) =>
              LET obj == outcome.net.json.obj
              IN  /\ outcome.tag = "return"
                  /\ ~outcome.value.success
                  /\ "error" \notin DOMAIN obj =>
                        outcome.value.error = "Deployment failed: Unknown error"
                  /\ ("error" \in DOMAIN obj /\ obj["error"].t = "str") =>
                        outcome.value.error = "Deployment failed: " \o obj["error"].s
        /\ (outcome.net.kind = "response" /\ outcome.net.status_code = 200
               /\ outcome.net.text
                     = "{\"success\": false, \"error\": \"quota exceeded\"}") =>
              outcome.value =
                  [success |-> FALSE, error |-> "Deployment failed: quota exceeded"]

\* A 200 whose success indicator is the number 1 returned the payload.
C8_Witness ==
    /\ ReturnedSuccess
    /\ outcome.net.status_code = 200
    /\ outcome.net.json.obj["success"] = JNum("1")
    /\ outcome.value.data = outcome.net.json.obj

\* A deploy_worker call that met a remote-call error returned a failure
\* result carrying a message; it raised nothing.
C9_Captured ==
    (Called /\ outcome.net \in RemoteOutcomes) =>
        /\ outcome.tag = "return"
        /\ ~SucceededRemotely =>
              /\ outcome.value.success = FALSE
              /\ DOMAIN outcome.value = {"success", "error"}

\* While a deployment call is awaited and when it comes back, the two
\* collections and their files stay as they are.
C9_CallStep ==
    (pc \in {"single_wait", "bulk_wait"})
        => UNCHANGED <<accounts, github_urls, accountsFile, urlsFile>>

\* C9: every remote-call error of deploy_worker ends in a returned failure
\* result, none is raised past the call, and the call changes neither
\* collection.
C9_ErrorsCaptured == []C9_Captured /\ [][C9_CallStep]_vars

\* An unparseable body under status 200 came back as a failure result.
C9_Witness ==
    /\ Called
    /\ outcome.net.kind = "response"
    /\ outcome.net.status_code = 200
    /\ outcome.net.json.kind = "invalid"
    /\ outcome.tag = "return"
    /\ outcome.value.success = FALSE
    /\ pc = "menu"

(***************************************************************************)
(* Claims about construction (checked under SpecLoad).                     *)
(***************************************************************************)
Unreadable(file) == file.state \in {"missing", "malformed"}

SeededList(urls) == Len(urls) = 1 /\ urls[1].is_default

\* Construction as C10 states it.
C10_LoadStep_Original ==
    (pc = "boot" /\ pc' = "menu") =>
        /\ Unreadable(accountsFile) => accounts' = <<>>
        /\ Unreadable(urlsFile) => SeededList(github_urls')

\* C10 as stated: a missing or malformed accounts file gives no accounts, and
\* a missing or malformed script-source file gives the one-entry default list
\* whose entry is flagged default.
C10_Original == [][C10_LoadStep_Original]_vars

\* Construction as the code does it.
C10_LoadStep ==
    (pc = "boot" /\ pc' = "menu") =>
        /\ Unreadable(accountsFile) => (accounts' = <<>> /\ accountsFile' = accountsFile)
        /\ urlsFile.state = "missing" =>
              /\ SeededList(github_urls')
              /\ github_urls'[1].name = DefaultWorkerName
              /\ github_urls'[1].url = DEFAULT_GITHUB_URL
              /\ urlsFile'.state = "ok" => urlsFile'.data = github_urls'
        /\ urlsFile.state = "malformed" =>
              (github_urls' = <<>> /\ urlsFile' = urlsFile)

\* C10 (amended): a missing or malformed accounts file gives no accounts; a
\* missing script-source file gives the one-entry default list, flagged
\* default, which is in the file when the write succeeds; a malformed
\* script-source file gives the empty list and is left as it is.
C10_Load == [][C10_LoadStep]_vars

\* Constructed from a malformed script-source file and a malformed accounts
\* file: both collections are empty.
C10_Witness ==
    /\ pc = "menu"
    /\ console.op = "__init__"
    /\ urlsFile.state = "malformed"
    /\ accountsFile.state = "malformed"
    /\ github_urls = <<>>
    /\ accounts = <<>>

(***************************************************************************)
(* Claims about operator input to the deployment handlers (checked under   *)
(* Spec).                                                                  *)
(***************************************************************************)
\* The typed worker-name list holds an empty name: "", "a,,b", ",".
HasEmptyName(namesIn) ==
    \E i \in 1..Len(SplitComma(namesIn)) : Strip(SplitComma(namesIn)[i]) = <<>>

\* What is typed at the script-source prompt is neither Enter nor the number
\* of a listed entry.
MalformedUrlChoice(urlChoiceIn) ==
    LET choice == Strip(urlChoiceIn)
    IN  /\ github_urls # <<>>
        /\ choice # <<>>
        /\ ~ParseInt(choice).ok \/ ~(ParseInt(choice).val \in 1..Len(github_urls))

\* What is typed at the account prompt is not the number of a listed account.
MalformedAccountChoice(choiceIn) ==
    ~ParseInt(choiceIn).ok \/ ~(ParseInt(choiceIn).val \in 1..Len(accounts))

\* The handler is back at the menu: nothing stored has changed and no call
\* has been or will be made.
C11_Aborted ==
    /\ pc' = "menu"
    /\ calls' = <<>>
    /\ inflight' = NoCall
    /\ bulk' = NoBulk
    /\ StoreUnchanged

\* A deployment handler that was given empty or malformed input aborts.
C11_BadInputStep ==
    /\ \A choiceIn \in AccountChoiceInputs, workerIn \in WorkerNameInputs,
          urlChoiceIn \in UrlChoiceInputs, confirm \in ConfirmInputs :
          ( /\ accounts # <<>>
            /\ single_deploy(choiceIn, workerIn, urlChoiceIn, confirm)
            /\ \/ MalformedAccountChoice(choiceIn)
               \/ Strip(workerIn) = <<>>
               \/ MalformedUrlChoice(urlChoiceIn) ) => C11_Aborted
    /\ \A namesIn \in WorkerListInputs, urlChoiceIn \in BulkUrlChoiceInputs,
          confirm \in ConfirmInputs :
          ( /\ accounts # <<>>
            /\ bulk_deploy(namesIn, urlChoiceIn, confirm)
            /\ HasEmptyName(namesIn) \/ MalformedUrlChoice(urlChoiceIn) )
              => C11_Aborted

\* C11: on empty or malformed operator input (an empty name in the worker-name
\* list and a malformed answer at the script-source prompt included) the
\* operation aborts and returns to the menu, no record is changed and no
\* deployment call is dispatched on the basis of that input.
C11_BadInputAborts == [][C11_BadInputStep]_vars

(***************************************************************************)
(* The menu loops: main_menu, manage_accounts_menu and                     *)
(* manage_github_urls_menu, with the account handlers.  pc says which      *)
(* input() the control thread is blocked in:                               *)
(*   "menu", "accounts_menu", "urls_menu"   the prompt of a menu;          *)
(*   "menu_wait", "accounts_wait", "urls_wait"   wait_enter inside the try *)
(*        block of that menu's loop;                                       *)
(*   "menu_except_wait", "accounts_except_wait", "urls_except_wait"        *)
(*        wait_enter inside an except clause of that menu's loop.          *)
(* The handlers behind choices 1 and 2 of the main menu are the actions of *)
(* Spec, those behind choices 2 to 4 of the script-source menu are the     *)
(* actions of SpecUrls.                                                    *)
(***************************************************************************)
MenuInputs ==
    { <<"x">>, <<"0">>, <<"1">>, <<"2">>, <<"3">>, <<"4">>, <<"5">>, <<"6">>,
      <<"7">> }

SessionUnchanged == UNCHANGED <<bulk, calls, inflight, outcome>>

\* remove_account: the list and the file it leaves, and what it reports.
remove_account(accts, file, choiceIn, w) ==
    LET parsed == ParseInt(choiceIn)
        choice == parsed.val
        rest == RemoveAt(accts, choice)
    IN  IF accts = <<>>
        THEN [accounts |-> accts, file |-> file, wrote |-> FALSE,
              result |-> "No accounts to remove."]
        ELSE IF ~parsed.ok
        THEN [accounts |-> accts, file |-> file, wrote |-> FALSE,
              result |-> "Invalid choice"]
        ELSE IF 1 <= choice /\ choice <= Len(accts)
        THEN [accounts |-> rest, file |-> save_accounts(file, rest, w),
              wrote |-> TRUE, result |-> "removed"]
        ELSE [accounts |-> accts, file |-> file, wrote |-> FALSE,
              result |-> "Cancelled"]

\* One pass of the main_menu loop for a typed choice.
main_menu(choiceIn) ==
    LET parsed == ParseInt(choiceIn)
        choice == parsed.val
    IN  /\ pc = "menu"
        /\ ~(parsed.ok /\ choice \in {1, 2})
        /\ CASE ~parsed.ok ->
                  /\ console' = Report("main_menu", "Please enter a number", 0)
                  /\ pc' = "menu_except_wait"
             [] parsed.ok /\ choice = 3 ->
                  /\ console' = Report("manage_accounts_menu", "ACCOUNT MANAGEMENT", 0)
                  /\ pc' = "accounts_menu"
             [] parsed.ok /\ choice = 4 ->
                  /\ console' = Report("manage_github_urls_menu", "GITHUB URL MANAGEMENT", 0)
                  /\ pc' = "urls_menu"
             [] parsed.ok /\ choice = 5 ->
                  /\ console' = Report("show_status", "SYSTEM STATUS", 0)
                  /\ pc' = "menu_wait"
             [] parsed.ok /\ choice = 6 ->
                  /\ console' = Report("main_menu", "GOODBYE", 0)
                  /\ pc' = "exited"
             [] OTHER ->
                  /\ console' = Report("main_menu", "Please select option 1-6", 0)
                  /\ pc' = "menu_wait"
        /\ StoreUnchanged
        /\ SessionUnchanged

MainMenu == \E choiceIn \in MenuInputs : main_menu(choiceIn)

\* KeyboardInterrupt raised by an input() inside the try block of main_menu:
\* the except KeyboardInterrupt clause breaks out of the loop.
MainMenuInterrupt ==
    /\ pc \in {"menu", "menu_wait"}
    /\ console' = Report("main_menu", "Program interrupted by user", 0)
    /\ pc' = "exited"
    /\ StoreUnchanged
    /\ SessionUnchanged

\* KeyboardInterrupt raised by the wait_enter of the except ValueError
\* clause: no clause of that try statement handles it, and main() catches
\* Exception only, so the interpreter ends with the traceback.
MainExceptInterrupt ==
    /\ pc = "menu_except_wait"
    /\ console' = Report("main", "KeyboardInterrupt", 0)
    /\ pc' = "exited"
    /\ StoreUnchanged
    /\ SessionUnchanged

\* One pass of the manage_accounts_menu loop for a typed choice other than
\* add and remove.
manage_accounts_menu(choiceIn) ==
    LET parsed == ParseInt(choiceIn)
        choice == parsed.val
    IN  /\ pc = "accounts_menu"
        /\ ~(parsed.ok /\ choice \in {2, 3})
        /\ CASE ~parsed.ok ->
                  /\ console' = Report("manage_accounts_menu", "Invalid input", 0)
                  /\ pc' = "accounts_except_wait"
             [] parsed.ok /\ choice = 1 ->
                  /\ console' = Report("list_accounts",
                                       IF accounts = <<>> THEN "No accounts found"
                                       ELSE "ACCOUNT LIST", 0)
                  /\ pc' = "accounts_wait"
             [] parsed.ok /\ choice = 4 ->
                  /\ console' = Report("manage_accounts_menu", "Back to Main Menu", 0)
                  /\ pc' = "menu"
             [] OTHER ->
                  /\ console' = Report("manage_accounts_menu", "Invalid choice", 0)
                  /\ pc' = "accounts_wait"
        /\ StoreUnchanged
        /\ SessionUnchanged

ManageAccountsMenu == \E choiceIn \in MenuInputs : manage_accounts_menu(choiceIn)

\* Choice 2 of the account menu: add_account, up to its wait_enter.
AddAccount ==
    /\ pc = "accounts_menu"
    /\ \E emailIn \in EmailInputs, keyIn \in KeyInputs, ws \in Writes(1) :
          LET r == add_account(accounts, accountsFile, emailIn, keyIn, ws[1])
          IN  /\ r.wrote \/ ws[1] = "ok"
              /\ r.wrote => Len(accounts) < MaxAccounts
              /\ accounts' = r.accounts
              /\ accountsFile' = r.file
              /\ writeFailures' =
                    writeFailures + (IF r.wrote THEN Failures(ws) ELSE 0)
              /\ console' = Report("add_account", r.result, 0)
    /\ pc' = "accounts_wait"
    /\ UNCHANGED <<github_urls, urlsFile>>
    /\ SessionUnchanged

\* Choice 3 of the account menu: remove_account, up to its wait_enter.
RemoveAccount ==
    /\ pc = "accounts_menu"
    /\ \E choiceIn \in AccountChoiceInputs, ws \in Writes(1) :
          LET r == remove_account(accounts, accountsFile, choiceIn, ws[1])
          IN  /\ r.wrote \/ ws[1] = "ok"
              /\ accounts' = r.accounts
              /\ accountsFile' = r.file
              /\ writeFailures' =
                    writeFailures + (IF r.wrote THEN Failures(ws) ELSE 0)
              /\ console' = Report("remove_account", r.result, 0)
    /\ pc' = "accounts_wait"
    /\ UNCHANGED <<github_urls, urlsFile>>
    /\ SessionUnchanged

\* KeyboardInterrupt raised by an input() inside the try block of
\* manage_accounts_menu: the bare except clause handles it like any other
\* exception, and the loop goes on.
ManageAccountsInterrupt ==
    /\ pc \in {"accounts_menu", "accounts_wait"}
    /\ console' = Report("manage_accounts_menu", "Invalid input", 0)
    /\ pc' = "accounts_except_wait"
    /\ StoreUnchanged
    /\ SessionUnchanged

\* One pass of the manage_github_urls_menu loop for a typed choice other than
\* add, remove and set default.
manage_github_urls_menu(choiceIn) ==
    LET parsed == ParseInt(choiceIn)
        choice == parsed.val
    IN  /\ pc = "urls_menu"
        /\ ~(parsed.ok /\ choice \in {2, 3, 4})
        /\ CASE ~parsed.ok ->
                  /\ console' = Report("manage_github_urls_menu", "Invalid input", 0)
                  /\ pc' = "urls_except_wait"
             [] parsed.ok /\ choice = 1 ->
                  /\ console' = Report("list_github_urls",
                                       IF github_urls = <<>> THEN "No GitHub URLs found"
                                       ELSE "GITHUB URL LIST", 0)
                  /\ pc' = "urls_wait"
             [] parsed.ok /\ choice = 5 ->
                  /\ console' = Report("manage_github_urls_menu", "Back to Main Menu", 0)
                  /\ pc' = "menu"
             [] OTHER ->
                  /\ console' = Report("manage_github_urls_menu", "Invalid choice", 0)
                  /\ pc' = "urls_wait"
        /\ StoreUnchanged
        /\ SessionUnchanged

ManageGithubUrlsMenu ==
    \E choiceIn \in MenuInputs : manage_github_urls_menu(choiceIn)

\* KeyboardInterrupt raised by an input() inside the try block of
\* manage_github_urls_menu: handled by its bare except clause.
ManageGithubUrlsInterrupt ==
    /\ pc \in {"urls_menu", "urls_wait"}
    /\ console' = Report("manage_github_urls_menu", "Invalid input", 0)
    /\ pc' = "urls_except_wait"
    /\ StoreUnchanged
    /\ SessionUnchanged

\* KeyboardInterrupt raised by the wait_enter of a sub-menu's except clause:
\* it leaves the sub-menu and reaches the except KeyboardInterrupt clause of
\* main_menu, whose try block called the sub-menu.
SubMenuExceptInterrupt ==
    /\ pc \in {"accounts_except_wait", "urls_except_wait"}
    /\ console' = Report("main_menu", "Program interrupted by user", 0)
    /\ pc' = "exited"
    /\ StoreUnchanged
    /\ SessionUnchanged

\* wait_enter returns: the loop of the menu it was called under goes round.
WaitEnter ==
    /\ pc \in {"menu_wait", "menu_except_wait", "accounts_wait",
               "accounts_except_wait", "urls_wait", "urls_except_wait"}
    /\ pc' = CASE pc \in {"menu_wait", "menu_except_wait"} -> "menu"
               [] pc \in {"accounts_wait", "accounts_except_wait"} -> "accounts_menu"
               [] OTHER -> "urls_menu"
    /\ StoreUnchanged
    /\ SessionUnchanged
    /\ UNCHANGED console

NextMenu ==
    \/ MainMenu
    \/ MainMenuInterrupt
    \/ MainExceptInterrupt
    \/ ManageAccountsMenu
    \/ AddAccount
    \/ RemoveAccount
    \/ ManageAccountsInterrupt
    \/ ManageGithubUrlsMenu
    \/ ManageGithubUrlsInterrupt
    \/ SubMenuExceptInterrupt
    \/ WaitEnter

SpecMenu == Init /\ [][NextMenu]_vars

(***************************************************************************)
(* Claims about the menus (checked under SpecMenu).                        *)
(***************************************************************************)
\* The control thread is blocked in the prompt of one of the three menus.
AtMenuPrompt == pc \in {"menu", "accounts_menu", "urls_menu"}

\* An interrupt signal arrives while an input() is blocked.
InterruptStep ==
    \/ MainMenuInterrupt
    \/ MainExceptInterrupt
    \/ ManageAccountsInterrupt
    \/ ManageGithubUrlsInterrupt
    \/ SubMenuExceptInterrupt

\* The session ends by Exit or by an interrupt only, and an interrupt at a
\* menu prompt ends it.
C12_SessionStep ==
    /\ (pc # "exited" /\ pc' = "exited") =>
          (InterruptStep \/ \E choiceIn \in { <<"6">> } : main_menu(choiceIn))
    /\ (AtMenuPrompt /\ InterruptStep) => pc' = "exited"

\* C12: the session ends on the Exit choice or on an interrupt signal, and an
\* interrupt signal at the prompt of the main menu, of the account menu or of
\* the script-source menu ends the menu loop and the session instead of
\* being taken for an invalid menu input.
C12_InterruptEndsSession == [][C12_SessionStep]_vars

(***************************************************************************)
(* Claims about a bulk deployment with an empty list (checked under Spec). *)
(***************************************************************************)
\* bulk_deploy starts with no stored account or with an empty line of names.
EmptyListStart(namesIn, urlChoiceIn, confirm) ==
    /\ accounts = <<>> \/ Strip(namesIn) = <<>>
    /\ bulk_deploy(namesIn, urlChoiceIn, confirm)

\* The run goes through with an empty product and its summary counts zero.
C13_OriginalStep ==
    \A namesIn \in WorkerListInputs, urlChoiceIn \in BulkUrlChoiceInputs,
       confirm \in ConfirmInputs :
        EmptyListStart(namesIn, urlChoiceIn, confirm) =>
            /\ calls' = <<>>
            /\ bulk'.active
            /\ bulk'.total_deployments = 0
            /\ bulk'.successful = 0
            /\ bulk'.failed = 0

\* C13 as stated: a bulk deployment with no stored accounts or no worker
\* names dispatches no call and its summary reports zero deployments
\* attempted, succeeded and failed.
C13_Original == [][C13_OriginalStep]_vars

\* What bulk_deploy leaves when it refuses an empty list: the report, and
\* the menu again with no call and no run.
EmptyListRefused ==
    /\ calls' = <<>>
    /\ inflight' = NoCall
    /\ bulk' = NoBulk
    /\ pc' = "menu"
    /\ console'.op = "bulk_deploy"
    /\ console'.result = IF accounts = <<>> THEN "No accounts found"
                         ELSE "Please enter at least one worker name"
    /\ StoreUnchanged

\* A step that is not such a refusal is not the step of a bulk_deploy that
\* found no account or was given an empty line.
C13_EmptyListStep ==
    \/ EmptyListRefused
    \/ \A namesIn \in WorkerListInputs, urlChoiceIn \in BulkUrlChoiceInputs,
          confirm \in ConfirmInputs :
          ~EmptyListStart(namesIn, urlChoiceIn, confirm)

\* A run that got past the two checks has an account and a name, so the
\* summary it ends in counts at least one deployment.
C13_RunNonEmpty ==
    bulk.active =>
        /\ accounts # <<>>
        /\ bulk.worker_names # <<>>
        /\ bulk.total_deployments >= 1
        /\ pc = "bulk_summary" => bulk.successful + bulk.failed >= 1

\* C13 (amended): a bulk deployment with no stored accounts, or with an empty
\* line of worker names, reports that and returns to the menu with no call
\* dispatched and no summary; a run that reaches the summary attempted at
\* least one deployment.
C13_EmptyBulk == []C13_RunNonEmpty /\ [][C13_EmptyListStep]_vars

\* An empty line of worker names was refused while accounts were stored.
C13_Witness ==
    /\ accounts # <<>>
    /\ console = Report("bulk_deploy", "Please enter at least one worker name", 0)
    /\ pc = "menu"
    /\ calls = <<>>
    /\ bulk = NoBulk

(***************************************************************************)
(* Claims about the presence of a default (checked under SpecUrls).        *)
(***************************************************************************)
\* C14: after any sequence of add, remove and set default, from the seeded
\* collection or from the empty one, a non-empty collection has an entry
\* flagged default, and the default URL is the URL of a flagged entry.
C14_DefaultPresent ==
    github_urls # <<>> =>
        /\ DefaultCount(github_urls) >= 1
        /\ \E i \in 1..Len(github_urls) :
              /\ github_urls[i].is_default
              /\ get_default_github_url(github_urls) = github_urls[i].url

\* The first entry added to an empty collection is its default.
C14_Witness ==
    /\ console.op = "add_github_url"
    /\ console.result = "added, set as default"
    /\ Len(github_urls) = 1
    /\ github_urls[1].name # DefaultWorkerName
    /\ github_urls[1].is_default
    /\ get_default_github_url(github_urls) = github_urls[1].url

(***************************************************************************)
(* Claims about the confirmation prompt (checked under Spec).              *)
(***************************************************************************)
\* The answer is 'y' in either case.
AnsweredYes(confirm) == confirm \in { <<"y">>, <<"Y">> }

\* What single_deploy leaves when its confirmation is not answered 'y': no
\* call, and the collections as they were (when no account was stored, the
\* accounts as its own add_account left them before the prompt).
SingleDeclined ==
    /\ calls' = <<>>
    /\ inflight' = NoCall
    /\ pc' = "menu"
    /\ UNCHANGED <<github_urls, urlsFile, bulk>>
    /\ accounts # <<>> => UNCHANGED <<accounts, accountsFile, writeFailures>>

\* What bulk_deploy leaves when its confirmation is not answered 'y'.
BulkDeclined ==
    /\ calls' = <<>>
    /\ inflight' = NoCall
    /\ pc' = "menu"
    /\ bulk' = NoBulk
    /\ StoreUnchanged

\* A step that makes a call or changes a collection is not the step of a
\* deployment handler whose confirmation was answered otherwise than 'y'.
C15_DeclinedStep ==
    /\ \/ SingleDeclined
       \/ \A choiceIn \in AccountChoiceInputs, workerIn \in WorkerNameInputs,
             urlChoiceIn \in UrlChoiceInputs, confirm \in ConfirmInputs :
             ~( /\ ~AnsweredYes(confirm)
                /\ single_deploy(choiceIn, workerIn, urlChoiceIn, confirm) )
    /\ \/ BulkDeclined
       \/ \A namesIn \in WorkerListInputs, urlChoiceIn \in BulkUrlChoiceInputs,
             confirm \in ConfirmInputs :
             ~( /\ ~AnsweredYes(confirm)
                /\ bulk_deploy(namesIn, urlChoiceIn, confirm) )

\* A call is dispatched by a confirmed single_deploy or inside the loops of
\* a bulk run, and the loops are entered by a confirmed bulk_deploy only.
C15_DispatchStep ==
    /\ Len(calls') > Len(calls) =>
          \/ pc = "bulk_loop" /\ bulk.active
          \/ \E choiceIn \in AccountChoiceInputs, workerIn \in WorkerNameInputs,
                urlChoiceIn \in UrlChoiceInputs, confirm \in ConfirmInputs :
                /\ AnsweredYes(confirm)
                /\ single_deploy(choiceIn, workerIn, urlChoiceIn, confirm)
    /\ (~bulk.active /\ bulk'.active) =>
          \E namesIn \in WorkerListInputs, urlChoiceIn \in BulkUrlChoiceInputs,
             confirm \in ConfirmInputs :
                /\ AnsweredYes(confirm)
                /\ bulk_deploy(namesIn, urlChoiceIn, confirm)

\* C15: deploy_worker is called only after the confirmation prompt of the
\* same single or bulk deployment was answered 'y'; after any other answer no
\* call is made and the accounts and script sources stay as they were.
C15_ConfirmedOnly == [][C15_DeclinedStep /\ C15_DispatchStep]_vars

\* A single deployment was declined with stored accounts and no call made.
C15_Witness ==
    /\ console.op = "single_deploy"
    /\ console.result = "not confirmed"
    /\ console.choice >= 1
    /\ accounts # <<>>
    /\ calls = <<>>
    /\ inflight = NoCall
    /\ pc = "menu"

====
